---- MODULE Spec2Model ----
(***************************************************************************)
(* A model of the luxcoin core: digests and their hexadecimal text, the    *)
(* Merkle tree reduction, block header hashing, the difficulty target and  *)
(* transaction construction.                                               *)
(*                                                                         *)
(* Text is a sequence of the bytes the program hands to the hash function  *)
(* (`data.as_bytes()`): a character is its ASCII code.  SHA-256 itself is  *)
(* idealised as a collision-free function: a digest is the term built from *)
(* its preimage, so two digests are equal exactly when their preimages     *)
(* are.  Digests supplied by a caller (a previous block hash, the id of a  *)
(* spent transaction, a difficulty target) are concrete 32-byte arrays.    *)
(***************************************************************************)
EXTENDS Integers, Sequences, FiniteSets, TLC

VARIABLES
    prev, last,                 \* two Transaction::new calls, the later in `last`
    leaves, hashes, pc, root,   \* MerkleTree::new: argument, locals, position, result
    n_zero_bits, target,        \* target_hash: argument and outcome
    cand, valid,                \* a candidate block hash and `cand <= target`
    hdrPrev, hdrLast            \* two BlockHeader::hash calls, the later in `hdrLast`

vars == <<prev, last, leaves, hashes, pc, root, n_zero_bits, target, cand, valid,
          hdrPrev, hdrLast>>

txVars     == <<prev, last>>
merkleVars == <<leaves, hashes, pc, root>>
targetVars == <<n_zero_bits, target, cand, valid>>
headerVars == <<hdrPrev, hdrLast>>

(***************************************************************************)
(* Bounds of the model.                                                    *)
(***************************************************************************)
MaxInputs == 2
MaxOutputs == 2
MaxLeaves == 7
MaxZeroBits == 272

(***************************************************************************)
(* Program constants.                                                      *)
(***************************************************************************)
Sha256Len == 32
\* i32::MAX, the largest output index; TLC's integers end here, so it also
\* stands for the large values of the u32 fields and arguments.
I32Max == 2147483647

(***************************************************************************)
(* The values of results that do not exist yet.                            *)
(***************************************************************************)
NoCall == [status |-> "none", id |-> <<>>, inputs |-> <<>>, outputs |-> <<>>,
           locktime |-> 0]
NoRoot == <<>>
NoTarget == [status |-> "none", hash |-> <<>>]
NoCand == <<>>
NoHeader == [previous_block_hash |-> <<>>, merkle_root |-> <<>>, timestamp |-> 0,
             difficulty |-> 0, nonce |-> 0]
NoHash == [called |-> FALSE, header |-> NoHeader, data |-> <<>>, id |-> <<>>]

\* All sequences over S of length 0 .. n.
SeqsUpTo(S, n) == UNION {[1..k -> S] : k \in 0..n}

RECURSIVE Concat(_)
\* The concatenation of a sequence of sequences (`join("")`).
Concat(ss) == IF ss = <<>> THEN <<>> ELSE Head(ss) \o Concat(Tail(ss))

(***************************************************************************)
(* crypto.rs                                                               *)
(***************************************************************************)
\* One lowercase hexadecimal digit, as its ASCII code.
HexDigit(d) == IF d < 10 THEN 48 + d ELSE 87 + d

\* hex::encode: two lowercase digits per byte, high nibble first.
as_hex(bytes) ==
    [i \in 1..(2 * Len(bytes)) |->
        IF i % 2 = 1 THEN HexDigit(bytes[(i + 1) \div 2] \div 16)
                     ELSE HexDigit(bytes[i \div 2] % 16)]

\* SHA-256, collision-free: the digest is its preimage between two marks that
\* are no byte, so the concatenation of two digests splits in one way only.
hash(data) == <<256>> \o data \o <<257>>

RECURSIVE DecDigits(_)
\* The decimal digits of a natural number, no leading zero.
DecDigits(n) ==
    IF n < 10 THEN <<48 + n>> ELSE DecDigits(n \div 10) \o <<48 + (n % 10)>>

\* Display of an integer (u32, i32, i64): a minus sign for negative values.
IntText(n) == IF n < 0 THEN <<45>> \o DecDigits(-n) ELSE DecDigits(n)

(***************************************************************************)
(* transaction.rs                                                          *)
(***************************************************************************)
COINBASE_UTXO_ID == [i \in 1..Sha256Len |-> 0]
COINBASE_OUTPUT_INDEX == -1

new_coinbase == [utxo_id |-> COINBASE_UTXO_ID, output_index |-> COINBASE_OUTPUT_INDEX]

\* A mutated sentinel test: the output index is not compared.
InputIsCoinbaseIdOnly(input) == input.utxo_id = COINBASE_UTXO_ID

\* TransactionInput::is_coinbase
InputIsCoinbase(input) ==
    input.utxo_id = COINBASE_UTXO_ID /\ input.output_index = COINBASE_OUTPUT_INDEX

\* Display for TransactionInput: "{utxo_id}{output_index}"
TransactionInputText(input) == as_hex(input.utxo_id) \o IntText(input.output_index)

\* Display for Luxcoin: "{} LUX"
LuxcoinText(amount) == IntText(amount) \o <<32, 76, 85, 88>>

\* Display for TransactionOutput: "{to}{amount}"
TransactionOutputText(output) == output.to \o LuxcoinText(output.amount)

\* Transaction::hash_transaction_data
hash_transaction_data(inputs, outputs) ==
    hash(Concat([i \in 1..Len(inputs) |-> TransactionInputText(inputs[i])])
         \o Concat([i \in 1..Len(outputs) |-> TransactionOutputText(outputs[i])]))

\* Transaction::validate_format: TRUE for Ok(()), FALSE for Err(InvalidTransaction).
validate_format(inputs, outputs) ==
    LET contains_coinbase_inputs ==
            \E i \in 1..Len(inputs) : InputIsCoinbase(inputs[i])
        coinbase_requirements_satisfied == Len(inputs) = 1 /\ Len(outputs) = 1
    IN ~(contains_coinbase_inputs /\ ~coinbase_requirements_satisfied)

\* Transaction::new: the call with its arguments and its outcome.  With status
\* "Ok" the returned transaction is (id, inputs, outputs, locktime); with
\* "InvalidTransaction" only the id survives, in the error's message.
TransactionNew(inputs, outputs, locktime) ==
    LET id == hash_transaction_data(inputs, outputs)
    IN [status   |-> IF validate_format(inputs, outputs) THEN "Ok"
                                                         ELSE "InvalidTransaction",
        id       |-> id,
        inputs   |-> inputs,
        outputs  |-> outputs,
        locktime |-> locktime]

\* Inputs a caller can build: the sentinel, and two that share one field with it.
InputSamples ==
    { new_coinbase,
      [utxo_id |-> COINBASE_UTXO_ID, output_index |-> 0],
      [utxo_id |-> [i \in 1..Sha256Len |-> 255], output_index |-> COINBASE_OUTPUT_INDEX] }

\* One output: 50 to the address "a".
OutputSamples == { [to |-> <<97>>, amount |-> 50] }

LocktimeSamples == {0, I32Max}

\* No transaction has been built; the other components are idle.
InitTx ==
    /\ prev = NoCall /\ last = NoCall
    /\ leaves = <<>> /\ hashes = <<>> /\ pc = "idle" /\ root = NoRoot
    /\ n_zero_bits = 0 /\ target = NoTarget /\ cand = NoCand /\ valid = FALSE
    /\ hdrPrev = NoHash /\ hdrLast = NoHash

\* A caller builds a transaction.  A run follows two calls.
CallTransactionNew ==
    /\ prev.status = "none"
    /\ \E inputs \in SeqsUpTo(InputSamples, MaxInputs),
          outputs \in SeqsUpTo(OutputSamples, MaxOutputs),
          locktime \in LocktimeSamples :
           /\ last' = TransactionNew(inputs, outputs, locktime)
           /\ prev' = last
    /\ UNCHANGED <<merkleVars, targetVars, headerVars>>

NextTx == CallTransactionNew

(***************************************************************************)
(* crypto.rs: MerkleTree::new                                              *)
(***************************************************************************)
\* The loop test: `while hashes.len() != 1`.
LoopCond(hs) == Len(hs) # 1

\* A mutated odd-level policy: the unpaired last digest is promoted unchanged.
NextLevelPromote(hs) ==
    [i \in 1..((Len(hs) + 1) \div 2) |->
        IF 2 * i <= Len(hs) THEN hash(hs[2 * i - 1] \o hs[2 * i]) ELSE hs[2 * i - 1]]

\* A mutated pairing: the index advances by one, not two (no `step_by(2)`).
NextLevelStepOne(hs) ==
    LET padded == IF Len(hs) % 2 = 1 THEN Append(hs, hs[Len(hs)]) ELSE hs
    IN [i \in 1..(Len(padded) - 1) |-> hash(padded[i] \o padded[i + 1])]

\* One pass of the loop body: an odd level gets a copy of its last digest,
\* then adjacent digests are concatenated (lhs || rhs) and hashed.
NextLevel(hs) ==
    LET padded == IF Len(hs) % 2 = 1 THEN Append(hs, hs[Len(hs)]) ELSE hs
    IN [i \in 1..(Len(padded) \div 2) |-> hash(padded[2 * i - 1] \o padded[2 * i])]

RECURSIVE Reduce(_)
\* The loop run to its end, for a level the loop leaves.
Reduce(hs) == IF LoopCond(hs) THEN Reduce(NextLevel(hs)) ELSE hs

\* MerkleTree::new as a function of its leaves (at least one).
MerkleTreeNew(ls) == Reduce([i \in 1..Len(ls) |-> hash(ls[i])])[1]

\* Leaves: the byte strings "h" and "w".
LeafSamples == { <<104>>, <<119>> }

\* MerkleTree::new is entered with some leaves; the other components are idle.
InitMerkle ==
    /\ leaves \in SeqsUpTo(LeafSamples, MaxLeaves)
    /\ hashes = <<>> /\ pc = "call" /\ root = NoRoot
    /\ prev = NoCall /\ last = NoCall
    /\ n_zero_bits = 0 /\ target = NoTarget /\ cand = NoCand /\ valid = FALSE
    /\ hdrPrev = NoHash /\ hdrLast = NoHash

\* `let mut hashes = leaves.iter().map(|leaf| hash(*leaf)).collect()`
HashLeaves ==
    /\ pc = "call"
    /\ hashes' = [i \in 1..Len(leaves) |-> hash(leaves[i])]
    /\ pc' = "while"
    /\ UNCHANGED <<leaves, root, txVars, targetVars, headerVars>>

\* The loop test holds: the body is entered.
WhileEnter ==
    /\ pc = "while"
    /\ LoopCond(hashes)
    /\ pc' = "body"
    /\ UNCHANGED <<leaves, hashes, root, txVars, targetVars, headerVars>>

\* The loop body: `hashes = next_level_hashes`.
LoopBody ==
    /\ pc = "body"
    /\ hashes' = NextLevel(hashes)
    /\ pc' = "while"
    /\ UNCHANGED <<leaves, root, txVars, targetVars, headerVars>>

\* The loop test fails: `MerkleTree(MerkleHash::new(hashes.into_iter().next().unwrap()))`
WhileExit ==
    /\ pc = "while"
    /\ ~LoopCond(hashes)
    /\ root' = hashes[1]
    /\ pc' = "done"
    /\ UNCHANGED <<leaves, hashes, txVars, targetVars, headerVars>>

NextMerkle == HashLeaves \/ WhileEnter \/ LoopBody \/ WhileExit

(***************************************************************************)
(* crypto.rs: target_hash, and the ordering of BlockHash (block.rs)        *)
(***************************************************************************)
Panic == [status |-> "panic", hash |-> <<>>]
Returned(bytes) == [status |-> "ok", hash |-> bytes]

\* A mutated mask: `remainder = n_zero_bits % 8`.
target_hash_mask_swapped(n) ==
    LET num_zero_bytes == n \div 8
        remainder == n % 8
        zeroed == [i \in 1..Sha256Len |-> IF i <= num_zero_bytes THEN 0 ELSE 255]
    IN IF num_zero_bytes > Sha256Len THEN Panic
       ELSE IF remainder = 0 THEN Returned(zeroed)
       ELSE IF num_zero_bytes >= Sha256Len THEN Panic
       ELSE Returned([zeroed EXCEPT ![num_zero_bytes + 1] = ((2 ^ remainder) - 1) % 256])

\* A mutated range: the count of zero bytes is clamped to the array.
target_hash_clamped(n) ==
    LET num_zero_bytes == IF n \div 8 > Sha256Len THEN Sha256Len ELSE n \div 8
        remainder == 8 - (n % 8)
        zeroed == [i \in 1..Sha256Len |-> IF i <= num_zero_bytes THEN 0 ELSE 255]
    IN IF remainder = 8 \/ num_zero_bytes >= Sha256Len THEN Returned(zeroed)
       ELSE Returned([zeroed EXCEPT ![num_zero_bytes + 1] = ((2 ^ remainder) - 1) % 256])

\* target_hash.  The array starts all 0xff; the loop writes hash[0 .. num_zero_bytes-1]
\* and panics on index 32; with a partial byte, hash[num_zero_bytes] is written
\* (u8 arithmetic) and panics when num_zero_bytes is 32.
target_hash(n) ==
    LET num_zero_bytes == n \div 8
        remainder == 8 - (n % 8)
        zeroed == [i \in 1..Sha256Len |-> IF i <= num_zero_bytes THEN 0 ELSE 255]
    IN IF num_zero_bytes > Sha256Len THEN Panic
       ELSE IF remainder = 8 THEN Returned(zeroed)
       ELSE IF num_zero_bytes >= Sha256Len THEN Panic
       ELSE Returned([zeroed EXCEPT ![num_zero_bytes + 1] = ((2 ^ remainder) - 1) % 256])

RECURSIVE CmpFrom(_, _, _)
\* Lexicographic comparison of two arrays from index i: -1, 0 or 1.
CmpFrom(a, b, i) ==
    IF i > Len(a) THEN 0
    ELSE IF a[i] < b[i] THEN -1
    ELSE IF a[i] > b[i] THEN 1
    ELSE CmpFrom(a, b, i + 1)

\* A mutated comparison: strictly less.
BlockHashLt(a, b) == CmpFrom(a, b, 1) < 0

\* `a <= b` of the derived Ord of BlockHash: byte-wise from the first byte.
BlockHashLe(a, b) == CmpFrom(a, b, 1) <= 0

\* Bytes at the edges of the partial-byte masks: 2^k - 1 and 2^k.
ByteSamples == {0, 255} \cup {2 ^ k - 1 : k \in 1..7} \cup {2 ^ k : k \in 0..7}

\* Candidate hashes: p zero bytes, one sampled byte, then a constant tail.
CandSamples ==
    { [i \in 1..Sha256Len |-> IF i <= p THEN 0 ELSE IF i = p + 1 THEN v ELSE f] :
        p \in 0..(Sha256Len - 1), v \in ByteSamples, f \in {0, 255} }

\* target_hash is about to be called; the other components are idle.
InitTarget ==
    /\ n_zero_bits \in (0..MaxZeroBits) \cup {I32Max}
    /\ target = NoTarget /\ cand = NoCand /\ valid = FALSE
    /\ prev = NoCall /\ last = NoCall
    /\ leaves = <<>> /\ hashes = <<>> /\ pc = "idle" /\ root = NoRoot
    /\ hdrPrev = NoHash /\ hdrLast = NoHash

\* A caller computes the target.
CallTargetHash ==
    /\ target.status = "none"
    /\ target' = target_hash(n_zero_bits)
    /\ UNCHANGED <<n_zero_bits, cand, valid, txVars, merkleVars, headerVars>>

\* A candidate hash is judged against the target: `cand <= target`.
CompareCandidate ==
    /\ target.status = "ok"
    /\ cand = NoCand
    /\ \E h \in CandSamples :
        /\ cand' = h
        /\ valid' = BlockHashLe(h, target.hash)
    /\ UNCHANGED <<n_zero_bits, target, txVars, merkleVars, headerVars>>

NextTarget == CallTargetHash \/ CompareCandidate

(***************************************************************************)
(* block.rs: BlockHeader::hash                                             *)
(***************************************************************************)
\* The text BlockHeader::hash formats: "{}{}{}{}{}" of the five fields.
BlockHeaderData(h) ==
    as_hex(h.previous_block_hash) \o as_hex(h.merkle_root)
    \o IntText(h.timestamp) \o IntText(h.difficulty) \o IntText(h.nonce)

\* BlockHeader::hash, with the header it was called on and the text it hashed.
BlockHeaderHash(h) ==
    [called |-> TRUE, header |-> h, data |-> BlockHeaderData(h),
     id |-> hash(BlockHeaderData(h))]

DigestSamples == { [i \in 1..Sha256Len |-> 0], [i \in 1..Sha256Len |-> 171] }

FieldSamples == {1, 11, I32Max}

HeaderSamples ==
    [previous_block_hash : DigestSamples, merkle_root : DigestSamples,
     timestamp : FieldSamples, difficulty : FieldSamples, nonce : FieldSamples]

\* No header has been hashed; the other components are idle.
InitHeader ==
    /\ hdrPrev = NoHash /\ hdrLast = NoHash
    /\ prev = NoCall /\ last = NoCall
    /\ leaves = <<>> /\ hashes = <<>> /\ pc = "idle" /\ root = NoRoot
    /\ n_zero_bits = 0 /\ target = NoTarget /\ cand = NoCand /\ valid = FALSE

\* A caller builds a header and hashes it.  A run follows two calls.
CallBlockHeaderHash ==
    /\ ~hdrPrev.called
    /\ \E h \in HeaderSamples :
        /\ hdrLast' = BlockHeaderHash(h)
        /\ hdrPrev' = hdrLast
    /\ UNCHANGED <<txVars, merkleVars, targetVars>>

NextHeader == CallBlockHeaderHash

(***************************************************************************)
(* Specifications: one per component, the others idle; and all together.   *)
(***************************************************************************)
SpecTx == InitTx /\ [][NextTx]_vars

SpecMerkle == InitMerkle /\ [][NextMerkle]_vars

\* The construction is one sequential call: it keeps running while it can.
LiveSpecMerkle == SpecMerkle /\ WF_vars(NextMerkle)

SpecTarget == InitTarget /\ [][NextTarget]_vars

SpecHeader == InitHeader /\ [][NextHeader]_vars

Init ==
    /\ prev = NoCall /\ last = NoCall
    /\ leaves \in SeqsUpTo(LeafSamples, MaxLeaves)
    /\ hashes = <<>> /\ pc = "call" /\ root = NoRoot
    /\ n_zero_bits \in (0..MaxZeroBits) \cup {I32Max}
    /\ target = NoTarget /\ cand = NoCand /\ valid = FALSE
    /\ hdrPrev = NoHash /\ hdrLast = NoHash

Next ==
    \/ CallTransactionNew
    \/ HashLeaves \/ WhileEnter \/ LoopBody \/ WhileExit
    \/ CallTargetHash \/ CompareCandidate
    \/ CallBlockHeaderHash

Spec == Init /\ [][Next]_vars

(***************************************************************************)
(* Properties of Transaction::new (SpecTx)                                 *)
(***************************************************************************)
\* The coinbase sentinel, stated on the fields: an all-zero id and index -1.
IsSentinel(input) ==
    /\ \A j \in 1..Sha256Len : input.utxo_id[j] = 0
    /\ input.output_index = -1

\* C1: Transaction::new fails with InvalidTransaction if and only if some input
\* is the coinbase sentinel and the call has not exactly one input and exactly
\* one output; in every other case it succeeds.
C1_FailsIffCoinbaseMisshapen ==
    last.status # "none" =>
        LET sentinel == \E i \in 1..Len(last.inputs) : IsSentinel(last.inputs[i])
            misshapen == Len(last.inputs) # 1 \/ Len(last.outputs) # 1
        IN /\ last.status = "InvalidTransaction" <=> (sentinel /\ misshapen)
           /\ last.status = "Ok" <=> ~(sentinel /\ misshapen)

\* C1's case: the sentinel beside a second, non-sentinel input is refused.
C1_Witness ==
    /\ last.status = "InvalidTransaction"
    /\ Len(last.inputs) = 2
    /\ IsSentinel(last.inputs[1])
    /\ ~IsSentinel(last.inputs[2])
    /\ Len(last.outputs) = 1

\* C2: every transaction Transaction::new returns successfully has a non-empty
\* input sequence and a non-empty output sequence.
C2_ConstructedNonEmpty ==
    last.status = "Ok" => (Len(last.inputs) >= 1 /\ Len(last.outputs) >= 1)

\* C6: two transactions built from the same inputs and the same outputs with
\* different locktimes have different ids.
C6_LocktimeDisambiguates ==
    ( /\ prev.status = "Ok"
      /\ last.status = "Ok"
      /\ prev.inputs = last.inputs
      /\ prev.outputs = last.outputs
      /\ prev.locktime # last.locktime ) => prev.id # last.id

(***************************************************************************)
(* Properties of MerkleTree::new (SpecMerkle, LiveSpecMerkle)              *)
(***************************************************************************)
\* The leaves followed by one more copy of the last leaf.
WithLastRepeated(ls) == Append(ls, ls[Len(ls)])

\* C3 as stated: for every odd number of leaves (1, 3, 5, ...) the root equals
\* the root of the leaves followed by one more copy of the last leaf.
C3_OddEqualsDuplicated ==
    (pc = "done" /\ Len(leaves) % 2 = 1) =>
        root = MerkleTreeNew(WithLastRepeated(leaves))

\* C3 amended: for every odd number of leaves of at least 3 the root equals
\* the root of the leaves followed by one more copy of the last leaf.
C3_OddAtLeastThreeEqualsDuplicated ==
    (pc = "done" /\ Len(leaves) % 2 = 1 /\ Len(leaves) >= 3) =>
        root = MerkleTreeNew(WithLastRepeated(leaves))

\* C3's case: seven leaves reduced, and the eight-leaf root is the same.
C3_Witness ==
    /\ pc = "done"
    /\ Len(leaves) = 7
    /\ root = MerkleTreeNew(WithLastRepeated(leaves))

\* C7: with at least one leaf the reduction loop terminates with exactly one
\* digest, which is the root; each pass replaces a level of k > 1 digests by
\* one of ceil(k/2); a level of one digest ends the loop; and the root of a
\* single leaf is the hash of that leaf.
C7_ReductionTerminates ==
    /\ [](Len(leaves) >= 1 => <>(pc = "done" /\ Len(hashes) = 1 /\ root = hashes[1]))
    /\ [][(pc = "body" /\ Len(hashes) > 1) =>
            Len(hashes') = (Len(hashes) + 1) \div 2]_vars
    /\ [][(pc = "while" /\ Len(hashes) = 1) => pc' = "done"]_vars
    /\ []((pc = "done" /\ Len(leaves) = 1) => root = hash(leaves[1]))

\* C7's case: seven leaves have been reduced to one digest.
C7_Witness ==
    /\ pc = "done"
    /\ Len(leaves) = 7
    /\ Len(hashes) = 1
    /\ root = hashes[1]

\* C8: given zero leaves, the construction also reaches a final outcome.
C8_EmptyConstructionEnds ==
    (pc = "call" /\ leaves = <<>>) ~> (pc = "done")

(***************************************************************************)
(* Properties of target_hash and the proof-of-work ordering (SpecTarget)   *)
(***************************************************************************)
\* C4: for 0 <= n_zero_bits < 256 the target is 32 bytes: n/8 bytes 0x00, then
\* (1 << (8 - n mod 8)) - 1 when n is no multiple of 8, then 0xff to the end.
C4_TargetLayout ==
    (target.status # "none" /\ n_zero_bits < 256) =>
        /\ target.status = "ok"
        /\ Len(target.hash) = 32
        /\ \A i \in 0..31 :
            target.hash[i + 1] =
                IF i < n_zero_bits \div 8 THEN 0
                ELSE IF i = n_zero_bits \div 8 /\ n_zero_bits % 8 # 0
                     THEN 2 ^ (8 - (n_zero_bits % 8)) - 1
                     ELSE 255

\* C4's case: target_hash(12) is 00 0f ff ... ff.
C4_Witness ==
    /\ n_zero_bits = 12
    /\ target.status = "ok"
    /\ target.hash[1] = 0
    /\ target.hash[2] = 15
    /\ \A i \in 3..32 : target.hash[i] = 255

\* Bit j of a hash, bit 0 the most significant bit of the first byte.
BitOf(h, j) == (h[j \div 8 + 1] \div (2 ^ (7 - (j % 8)))) % 2

\* C5: for 0 <= n_zero_bits < 256, a hash is at most target_hash(n_zero_bits)
\* in the byte-wise ordering if and only if its first n_zero_bits bits are zero.
C5_ValidIffLeadingZeroBits ==
    (cand # NoCand /\ n_zero_bits < 256) =>
        (valid <=> \A j \in 0..(n_zero_bits - 1) : BitOf(cand, j) = 0)

\* C5's case: a candidate equal to target_hash(12) is judged valid.
C5_Witness ==
    /\ n_zero_bits = 12
    /\ cand # NoCand
    /\ cand = target.hash
    /\ valid

\* C9 as stated: for every n_zero_bits >= 256, target_hash returns no target.
C9_NoTargetFrom256 ==
    (target.status # "none" /\ n_zero_bits >= 256) => target.status = "panic"

\* C9 amended: for every n_zero_bits >= 257, target_hash indexes outside the
\* array and returns no target; target_hash(256) returns the all-zero target.
C9_NoTargetFrom257 ==
    target.status # "none" =>
        /\ n_zero_bits >= 257 => target.status = "panic"
        /\ n_zero_bits = 256 =>
            (target.status = "ok" /\ \A i \in 1..32 : target.hash[i] = 0)

\* C9's case: target_hash(257) has panicked.
C9_Witness ==
    /\ n_zero_bits = 257
    /\ target.status = "panic"

(***************************************************************************)
(* Properties of BlockHeader::hash (SpecHeader)                            *)
(***************************************************************************)
\* C10: two headers that differ in at least one of the five fields are rendered
\* to different texts, so they never share a hash preimage.
C10_HeaderTextIdentifies ==
    (hdrPrev.called /\ hdrLast.called /\ hdrPrev.header # hdrLast.header) =>
        hdrPrev.data # hdrLast.data

====
